---- MODULE Spec2Model ----
(***************************************************************************)
(* Model of ext/pg_binary_encoder.c (ruby-pg): the binary encoders         *)
(* Boolean, Int2, Int4, Int8, String/Bytea, Timestamp and FromBase64 and   *)
(* the two-call protocol (sizing call with out = NULL, writing call with   *)
(* out = the caller's region) they are driven through.                     *)
(*                                                                         *)
(* Ruby Integers are arbitrary precision. They are modelled as NLimbs      *)
(* base-256 digits, least significant first, in two's complement, so that  *)
(* the checks NUM2INT / NUM2LONG / NUM2LL make and the truncation          *)
(* write_nbo16/32/64 perform are computed on the bytes and not assumed.    *)
(* The C arithmetic of the timestamp conversion is done in int64_t; it is  *)
(* computed exactly in the wide representation and every step is tested    *)
(* for leaving the 64 bit range (signed overflow, undefined behaviour).    *)
(***************************************************************************)
EXTENDS Integers, Sequences, FiniteSets, TLC

\* ------------------------------------------------------------------ bounds
\* Number of base-256 digits of a modelled Ruby Integer (96 bits).
NLimbs == 12
\* Instants are taken MaxDelta seconds around 2000-01-01T00:00:00Z.
MaxDelta == 1
\* Local UTC offsets of the process range over -MaxHours .. MaxHours hours.
MaxHours == 1

\* ------------------------------------------------- wide integer arithmetic
\* The two's complement digits of a small integer i (|i| < 2^31).
ToLimbs(i) ==
  [k \in 1..NLimbs |->
     IF k = 1 THEN i % 256
     ELSE IF k = 2 THEN (i \div 256) % 256
     ELSE IF k = 3 THEN (i \div 65536) % 256
     ELSE IF k = 4 THEN (i \div 16777216) % 256
     ELSE IF i < 0 THEN 255 ELSE 0]

RECURSIVE AddC(_, _, _, _)
AddC(a, b, k, c) ==
  IF k > NLimbs THEN <<>>
  ELSE LET t == a[k] + b[k] + c
       IN  <<t % 256>> \o AddC(a, b, k + 1, t \div 256)

\* a + b modulo 2^(8*NLimbs)
Add(a, b) == AddC(a, b, 1, 0)

RECURSIVE MulC(_, _, _, _)
MulC(a, m, k, c) ==
  IF k > NLimbs THEN <<>>
  ELSE LET t == a[k] * m + c
       IN  <<t % 256>> \o MulC(a, m, k + 1, t \div 256)

\* a * m modulo 2^(8*NLimbs), for 0 <= m <= 10^6
MulSmall(a, m) == MulC(a, m, 1, 0)

Neg(a) == Add([k \in 1..NLimbs |-> 255 - a[k]], ToLimbs(1))

Sub(a, b) == Add(a, Neg(b))

\* a is representable as a signed integer of n bytes
FitsSigned(a, n) ==
  LET ext == IF a[n] >= 128 THEN 255 ELSE 0
  IN  \A k \in (n + 1)..NLimbs : a[k] = ext

\* The integer a big-endian two's complement byte string denotes.
FromBE(bytes) ==
  LET n == Len(bytes)
      ext == IF bytes[1] >= 128 THEN 255 ELSE 0
  IN  [k \in 1..NLimbs |-> IF k <= n THEN bytes[n + 1 - k] ELSE ext]

\* ------------------------------------------------------------ Ruby values
\* A VALUE: t is its type; n the digits of an Integer or the whole seconds
\* of a Time; nsec and off the sub-second nanoseconds and the UTC offset of
\* a Time; s the bytes of a String.
Zero == ToLimbs(0)

Val(t, n, nsec, off, s) == [t |-> t, n |-> n, nsec |-> nsec, off |-> off, s |-> s]

Qtrue == Val("true", Zero, 0, 0, <<>>)

Qfalse == Val("false", Zero, 0, 0, <<>>)

Qnil == Val("nil", Zero, 0, 0, <<>>)

\* The content of a C variable that was never assigned.
Uninit == Val("uninit", Zero, 0, 0, <<>>)

RInt(n) == Val("int", n, 0, 0, <<>>)

RStr(s) == Val("str", Zero, 0, 0, s)

RTime(sec, nsec, off) == Val("time", sec, nsec, off, <<>>)

\* ----------------------------------------------------- results of a call
\* ret: the returned length; inter: the intermediate slot after the call;
\* out: the bytes written from offset 0 of the out pointer, transient ones
\* included (Len(out) is the highest offset written plus one); err: the
\* exception that ended the call, "none" when it returned; calls: the
\* number of times an element encoder was invoked.
Ok(ret, inter, out, calls) ==
  [ret |-> ret, inter |-> inter, out |-> out, err |-> "none", calls |-> calls]

Raise(err, inter, out, calls) ==
  [ret |-> 0, inter |-> inter, out |-> out, err |-> err, calls |-> calls]

\* Writing bytes at offset 0 over what the region already holds.
Overwrite(out, bytes) ==
  bytes \o (IF Len(out) > Len(bytes) THEN SubSeq(out, Len(bytes) + 1, Len(out)) ELSE <<>>)

\* ------------------------------------------------- byte order utilities
\* write_nbo16/32/64: the low w bytes of n, most significant first.
write_nbo(w, n) == [k \in 1..w |-> n[w + 1 - k]]

\* ----------------------------------------------------------------- base64
\* The 6 bit value of a base64 character, -1 for any other byte.
B64Val(c) ==
  IF c >= 65 /\ c <= 90 THEN c - 65
  ELSE IF c >= 97 /\ c <= 122 THEN c - 71
  ELSE IF c >= 48 /\ c <= 57 THEN c + 4
  ELSE IF c = 43 THEN 62
  ELSE IF c = 47 THEN 63
  ELSE -1

IsPad(c) == c = 61

\* One group of four characters; last: it is the final group of the text.
DecodeQuad(q, last) ==
  LET a == B64Val(q[1])
      b == B64Val(q[2])
      c == B64Val(q[3])
      d == B64Val(q[4])
      b1 == a * 4 + (b \div 16)
      b2 == (b % 16) * 16 + (c \div 4)
      b3 == (c % 4) * 64 + d
  IN  IF a < 0 \/ b < 0 THEN [ok |-> FALSE, bytes |-> <<>>]
      ELSE IF IsPad(q[3])
        THEN [ok |-> last /\ IsPad(q[4]), bytes |-> <<b1>>]
      ELSE IF c < 0 THEN [ok |-> FALSE, bytes |-> <<>>]
      ELSE IF IsPad(q[4]) THEN [ok |-> last, bytes |-> <<b1, b2>>]
      ELSE IF d < 0 THEN [ok |-> FALSE, bytes |-> <<>>]
      ELSE [ok |-> TRUE, bytes |-> <<b1, b2, b3>>]

RECURSIVE DecodeFrom(_, _)
DecodeFrom(text, i) ==
  IF i > Len(text) THEN [ok |-> TRUE, bytes |-> <<>>]
  ELSE LET q == DecodeQuad(SubSeq(text, i, i + 3), i + 3 = Len(text))
           r == DecodeFrom(text, i + 4)
       IN  [ok |-> q.ok /\ r.ok, bytes |-> q.bytes \o r.bytes]

\* base64_decode: the decoded bytes; not ok for an invalid character or an
\* incorrect padding length.
base64_decode(text) ==
  IF Len(text) % 4 # 0 THEN [ok |-> FALSE, bytes |-> <<>>]
  ELSE LET r == DecodeFrom(text, 1)
       IN  IF r.ok THEN r ELSE [ok |-> FALSE, bytes |-> <<>>]

\* BASE64_DECODED_SIZE: three bytes for every started group of four.
BASE64_DECODED_SIZE(len) == ((len + 3) \div 4) * 3

\* ------------------------------------------------ conversions of the VM
\* rb_obj_as_string for the values the encoders are given here (the decimal
\* text of an Integer and the calendar text of a Time are not modelled; no
\* such value is handed to a string conversion below).
rb_obj_as_string(value) ==
  CASE value.t = "str" -> value.s
    [] value.t = "nil" -> <<>>
    [] value.t = "true" -> <<116, 114, 117, 101>>
    [] value.t = "false" -> <<102, 97, 108, 115, 101>>

IsDigit(c) == c >= 48 /\ c <= 57

RECURSIVE DigitsFrom(_, _, _)
DigitsFrom(s, i, acc) ==
  IF i > Len(s) \/ ~IsDigit(s[i]) THEN acc
  ELSE DigitsFrom(s, i + 1, Add(MulSmall(acc, 10), ToLimbs(s[i] - 48)))

\* String#to_i: an optional sign and the leading decimal digits.
str_to_i(s) ==
  IF Len(s) > 0 /\ s[1] = 45 THEN Neg(DigitsFrom(s, 2, Zero))
  ELSE IF Len(s) > 0 /\ s[1] = 43 THEN DigitsFrom(s, 2, Zero)
  ELSE DigitsFrom(s, 1, Zero)

\* pg_obj_to_i: an Integer is taken as it is, anything else through to_i.
pg_obj_to_i(value) ==
  CASE value.t = "int" -> [err |-> "none", v |-> value]
    [] value.t = "nil" -> [err |-> "none", v |-> RInt(Zero)]
    [] value.t = "time" -> [err |-> "none", v |-> RInt(value.n)]
    [] value.t = "str" -> [err |-> "none", v |-> RInt(str_to_i(value.s))]
    [] OTHER -> [err |-> "NoMethodError", v |-> Qnil]

\* sizeof(long) of the build: 8 on LP64 (Linux, macOS), 4 on LLP64 (Windows).
LongBytes(cx) == IF cx.build = "LP64" THEN 8 ELSE 4

\* NUM2INT / NUM2LONG / NUM2LL: the Integer as a C integer of n bytes, a
\* RangeError when it does not fit, a TypeError for a non-numeric.
NUM2(x, n) ==
  IF x.t # "int" THEN [err |-> "TypeError", v |-> Zero]
  ELSE IF ~FitsSigned(x.n, n) THEN [err |-> "RangeError", v |-> Zero]
  ELSE [err |-> "none", v |-> x.n]

\* Time#getlocal: a new Time in the zone the process has now.
getlocal(cx, value) ==
  IF value.t = "time" THEN [err |-> "none", v |-> RTime(value.n, value.nsec, cx.env)]
  ELSE [err |-> "NoMethodError", v |-> Qnil]

\* rb_time_timespec: seconds and nanoseconds of a Time or of an Integer
\* number of seconds; time_t has 64 bits.
rb_time_timespec(x) ==
  IF x.t \notin {"time", "int"} THEN [err |-> "TypeError", tv_sec |-> Zero, tv_nsec |-> 0]
  ELSE IF ~FitsSigned(x.n, 8) THEN [err |-> "RangeError", tv_sec |-> Zero, tv_nsec |-> 0]
  ELSE [err |-> "none", tv_sec |-> x.n, tv_nsec |-> x.nsec]

\* Time#utc_offset
utc_offset(x) ==
  IF x.t = "time" THEN [err |-> "none", v |-> ToLimbs(x.off)]
  ELSE [err |-> "NoMethodError", v |-> Zero]

\* ------------------------------------------------------------ the encoders
\* An encoder is called as enc(this, cx, value, hasOut, inter, out): this is
\* the coder (chain: its class followed by those of its elements, flags: its
\* flag set), cx the build and environment of the call (build, env: the
\* UTC offset of the process's zone, ubo: what the build does on undefined
\* behaviour), hasOut whether out is not NULL, inter the intermediate slot.

UsecPerSec == 1000000

pg_coder_enc_to_s(this, cx, value, hasOut, inter, out) ==
  Ok(-1, RStr(rb_obj_as_string(value)), out, 0)

\* pg_bin_enc_boolean taking every value other than true for false.
pg_bin_enc_boolean_truthy(this, cx, value, hasOut, inter, out) ==
  LET mybool == IF value.t = "true" THEN 1 ELSE 0
  IN  Ok(1, inter, IF hasOut THEN Overwrite(out, <<mybool>>) ELSE out, 0)

pg_bin_enc_boolean(this, cx, value, hasOut, inter, out) ==
  IF value.t \notin {"true", "false"} THEN Raise("TypeError", inter, out, 0)
  ELSE LET mybool == IF value.t = "true" THEN 1 ELSE 0
       IN  Ok(1, inter, IF hasOut THEN Overwrite(out, <<mybool>>) ELSE out, 0)

pg_bin_enc_int2(this, cx, value, hasOut, inter, out) ==
  IF hasOut
  THEN LET c == NUM2(inter, 4)
       IN  IF c.err # "none" THEN Raise(c.err, inter, out, 0)
           ELSE Ok(2, inter, Overwrite(out, write_nbo(2, c.v)), 0)
  ELSE LET i == pg_obj_to_i(value)
       IN  IF i.err # "none" THEN Raise(i.err, inter, out, 0)
           ELSE Ok(2, i.v, out, 0)

pg_bin_enc_int4(this, cx, value, hasOut, inter, out) ==
  IF hasOut
  THEN LET c == NUM2(inter, LongBytes(cx))
       IN  IF c.err # "none" THEN Raise(c.err, inter, out, 0)
           ELSE Ok(4, inter, Overwrite(out, write_nbo(4, c.v)), 0)
  ELSE LET i == pg_obj_to_i(value)
       IN  IF i.err # "none" THEN Raise(i.err, inter, out, 0)
           ELSE Ok(4, i.v, out, 0)

pg_bin_enc_int8(this, cx, value, hasOut, inter, out) ==
  IF hasOut
  THEN LET c == NUM2(inter, 8)
       IN  IF c.err # "none" THEN Raise(c.err, inter, out, 0)
           ELSE Ok(8, inter, Overwrite(out, write_nbo(8, c.v)), 0)
  ELSE LET i == pg_obj_to_i(value)
       IN  IF i.err # "none" THEN Raise(i.err, inter, out, 0)
           ELSE Ok(8, i.v, out, 0)

\* TimestampMicros adding tv_nsec as if it were the microseconds of a
\* struct timeval.
TimestampMicros_timeval(this, ts, off) ==
  LET d == Sub(ts.tv_sec, ToLimbs(10957 * 24 * 3600))
      p == MulSmall(d, UsecPerSec)
      q == Add(p, ToLimbs(ts.tv_nsec))
      local == "TIMESTAMP_DB_LOCAL" \in this.flags
      r == MulSmall(off, UsecPerSec)
      t == IF local THEN Add(q, r) ELSE q
  IN  [v |-> t,
       fits |-> /\ FitsSigned(d, 8) /\ FitsSigned(p, 8) /\ FitsSigned(q, 8)
                /\ local => (FitsSigned(r, 8) /\ FitsSigned(t, 8))]

\* The int64_t arithmetic of the writing call, step by step: v the exact
\* value, fits whether every step stayed inside 64 bits.
TimestampMicros(this, ts, off) ==
  LET d == Sub(ts.tv_sec, ToLimbs(10957 * 24 * 3600))
      p == MulSmall(d, UsecPerSec)
      q == Add(p, ToLimbs(ts.tv_nsec \div 1000))
      local == "TIMESTAMP_DB_LOCAL" \in this.flags
      r == MulSmall(off, UsecPerSec)
      t == IF local THEN Add(q, r) ELSE q
  IN  [v |-> t,
       fits |-> /\ FitsSigned(d, 8) /\ FitsSigned(p, 8) /\ FitsSigned(q, 8)
                /\ local => (FitsSigned(r, 8) /\ FitsSigned(t, 8))]

\* pg_bin_enc_timestamp testing the type of the slot in the sizing call too.
pg_bin_enc_timestamp_slot(this, cx, value, hasOut, inter, out) ==
  IF hasOut
  THEN IF inter.t = "str"
       THEN pg_coder_enc_to_s(this, cx, value, hasOut, inter, out)
       ELSE LET ts == rb_time_timespec(inter)
                local == "TIMESTAMP_DB_LOCAL" \in this.flags
                o == IF local THEN utc_offset(inter) ELSE [err |-> "none", v |-> Zero]
                m == TimestampMicros(this, ts, o.v)
            IN  IF ts.err # "none" THEN Raise(ts.err, inter, out, 0)
                ELSE IF o.err # "none" THEN Raise(o.err, inter, out, 0)
                ELSE IF ~m.fits /\ cx.ubo = "trap" THEN Raise("trap", inter, out, 0)
                ELSE Ok(8, inter, Overwrite(out, write_nbo(8, m.v)), 0)
  ELSE IF inter.t = "str"
       THEN pg_coder_enc_to_s(this, cx, value, hasOut, inter, out)
       ELSE IF "TIMESTAMP_DB_LOCAL" \in this.flags
            THEN LET l == getlocal(cx, value)
                 IN  IF l.err # "none" THEN Raise(l.err, inter, out, 0)
                     ELSE Ok(8, l.v, out, 0)
            ELSE Ok(8, value, out, 0)

\* pg_bin_enc_timestamp taking the offset of the zone at the writing call.
pg_bin_enc_timestamp_live(this, cx, value, hasOut, inter, out) ==
  IF hasOut
  THEN IF inter.t = "str"
       THEN pg_coder_enc_to_s(this, cx, value, hasOut, inter, out)
       ELSE LET ts == rb_time_timespec(inter)
                local == "TIMESTAMP_DB_LOCAL" \in this.flags
                o == IF local THEN utc_offset(getlocal(cx, inter).v) ELSE [err |-> "none", v |-> Zero]
                m == TimestampMicros(this, ts, o.v)
            IN  IF ts.err # "none" THEN Raise(ts.err, inter, out, 0)
                ELSE IF o.err # "none" THEN Raise(o.err, inter, out, 0)
                ELSE IF ~m.fits /\ cx.ubo = "trap" THEN Raise("trap", inter, out, 0)
                ELSE Ok(8, inter, Overwrite(out, write_nbo(8, m.v)), 0)
  ELSE IF value.t = "str"
       THEN pg_coder_enc_to_s(this, cx, value, hasOut, inter, out)
       ELSE IF "TIMESTAMP_DB_LOCAL" \in this.flags
            THEN LET l == getlocal(cx, value)
                 IN  IF l.err # "none" THEN Raise(l.err, inter, out, 0)
                     ELSE Ok(8, l.v, out, 0)
            ELSE Ok(8, value, out, 0)

pg_bin_enc_timestamp(this, cx, value, hasOut, inter, out) ==
  IF hasOut
  THEN IF inter.t = "str"
       THEN pg_coder_enc_to_s(this, cx, value, hasOut, inter, out)
       ELSE LET ts == rb_time_timespec(inter)
                local == "TIMESTAMP_DB_LOCAL" \in this.flags
                o == IF local THEN utc_offset(inter) ELSE [err |-> "none", v |-> Zero]
                m == TimestampMicros(this, ts, o.v)
            IN  IF ts.err # "none" THEN Raise(ts.err, inter, out, 0)
                ELSE IF o.err # "none" THEN Raise(o.err, inter, out, 0)
                ELSE IF ~m.fits /\ cx.ubo = "trap" THEN Raise("trap", inter, out, 0)
                ELSE Ok(8, inter, Overwrite(out, write_nbo(8, m.v)), 0)
  ELSE IF value.t = "str"
       THEN pg_coder_enc_to_s(this, cx, value, hasOut, inter, out)
       ELSE IF "TIMESTAMP_DB_LOCAL" \in this.flags
            THEN LET l == getlocal(cx, value)
                 IN  IF l.err # "none" THEN Raise(l.err, inter, out, 0)
                     ELSE Ok(8, l.v, out, 0)
            ELSE Ok(8, value, out, 0)

RECURSIVE enc_func(_, _, _, _, _, _)

\* this->elem
Elem(this) == [chain |-> Tail(this.chain), flags |-> this.flags]

\* pg_bin_enc_from_base64 reporting the length of the text as the size.
pg_bin_enc_from_base64_textsize(this, cx, value, hasOut, inter, out) ==
  IF hasOut
  THEN LET e == enc_func(Elem(this), cx, value, TRUE, inter, out)
           d == base64_decode(SubSeq(e.out, 1, e.ret))
       IN  IF e.err # "none" THEN Raise(e.err, e.inter, e.out, e.calls + 1)
           ELSE IF e.ret < 0 THEN Raise("undefined", e.inter, e.out, e.calls + 1)
           ELSE IF ~d.ok THEN Raise("Malformed", e.inter, e.out, e.calls + 1)
           ELSE Ok(Len(d.bytes), e.inter, Overwrite(e.out, d.bytes), e.calls + 1)
  ELSE LET e == enc_func(Elem(this), cx, value, FALSE, Uninit, out)
           d == base64_decode(e.inter.s)
       IN  IF e.err # "none" THEN Raise(e.err, inter, out, e.calls + 1)
           ELSE IF e.ret = -1
             THEN IF ~d.ok THEN Raise("Malformed", inter, out, e.calls + 1)
                  ELSE Ok(-1, RStr(d.bytes), out, e.calls + 1)
           ELSE Ok(e.ret, e.inter, out, e.calls + 1)

\* pg_bin_enc_from_base64 storing the element's text, not the decoded bytes.
pg_bin_enc_from_base64_keeptext(this, cx, value, hasOut, inter, out) ==
  IF hasOut
  THEN LET e == enc_func(Elem(this), cx, value, TRUE, inter, out)
           d == base64_decode(SubSeq(e.out, 1, e.ret))
       IN  IF e.err # "none" THEN Raise(e.err, e.inter, e.out, e.calls + 1)
           ELSE IF e.ret < 0 THEN Raise("undefined", e.inter, e.out, e.calls + 1)
           ELSE IF ~d.ok THEN Raise("Malformed", e.inter, e.out, e.calls + 1)
           ELSE Ok(Len(d.bytes), e.inter, Overwrite(e.out, d.bytes), e.calls + 1)
  ELSE LET e == enc_func(Elem(this), cx, value, FALSE, Uninit, out)
           d == base64_decode(e.inter.s)
       IN  IF e.err # "none" THEN Raise(e.err, inter, out, e.calls + 1)
           ELSE IF e.ret = -1
             THEN IF ~d.ok THEN Raise("Malformed", inter, out, e.calls + 1)
                  ELSE Ok(-1, e.inter, out, e.calls + 1)
           ELSE Ok(BASE64_DECODED_SIZE(e.ret), e.inter, out, e.calls + 1)

\* pg_bin_enc_from_base64 with a writing path that copies a String intermediate.
pg_bin_enc_from_base64_copy(this, cx, value, hasOut, inter, out) ==
  IF hasOut /\ inter.t = "str"
  THEN Ok(Len(inter.s), inter, Overwrite(out, inter.s), 0)
  ELSE IF hasOut
  THEN LET e == enc_func(Elem(this), cx, value, TRUE, inter, out)
           d == base64_decode(SubSeq(e.out, 1, e.ret))
       IN  IF e.err # "none" THEN Raise(e.err, e.inter, e.out, e.calls + 1)
           ELSE IF e.ret < 0 THEN Raise("undefined", e.inter, e.out, e.calls + 1)
           ELSE IF ~d.ok THEN Raise("Malformed", e.inter, e.out, e.calls + 1)
           ELSE Ok(Len(d.bytes), e.inter, Overwrite(e.out, d.bytes), e.calls + 1)
  ELSE LET e == enc_func(Elem(this), cx, value, FALSE, Uninit, out)
           d == base64_decode(e.inter.s)
       IN  IF e.err # "none" THEN Raise(e.err, inter, out, e.calls + 1)
           ELSE IF e.ret = -1
             THEN IF ~d.ok THEN Raise("Malformed", inter, out, e.calls + 1)
                  ELSE Ok(-1, RStr(d.bytes), out, e.calls + 1)
           ELSE Ok(BASE64_DECODED_SIZE(e.ret), e.inter, out, e.calls + 1)

\* pg_bin_enc_from_base64 ignoring a decode failure in the writing call.
pg_bin_enc_from_base64_unchecked(this, cx, value, hasOut, inter, out) ==
  IF hasOut
  THEN LET e == enc_func(Elem(this), cx, value, TRUE, inter, out)
           d == base64_decode(SubSeq(e.out, 1, e.ret))
       IN  IF e.err # "none" THEN Raise(e.err, e.inter, e.out, e.calls + 1)
           ELSE IF e.ret < 0 THEN Raise("undefined", e.inter, e.out, e.calls + 1)
           ELSE Ok(Len(d.bytes), e.inter, Overwrite(e.out, d.bytes), e.calls + 1)
  ELSE LET e == enc_func(Elem(this), cx, value, FALSE, Uninit, out)
           d == base64_decode(e.inter.s)
       IN  IF e.err # "none" THEN Raise(e.err, inter, out, e.calls + 1)
           ELSE IF e.ret = -1
             THEN IF ~d.ok THEN Raise("Malformed", inter, out, e.calls + 1)
                  ELSE Ok(-1, RStr(d.bytes), out, e.calls + 1)
           ELSE Ok(BASE64_DECODED_SIZE(e.ret), e.inter, out, e.calls + 1)

pg_bin_enc_from_base64(this, cx, value, hasOut, inter, out) ==
  IF hasOut
  THEN LET e == enc_func(Elem(this), cx, value, TRUE, inter, out)
           d == base64_decode(SubSeq(e.out, 1, e.ret))
       IN  IF e.err # "none" THEN Raise(e.err, e.inter, e.out, e.calls + 1)
           ELSE IF e.ret < 0 THEN Raise("undefined", e.inter, e.out, e.calls + 1)
           ELSE IF ~d.ok THEN Raise("Malformed", e.inter, e.out, e.calls + 1)
           ELSE Ok(Len(d.bytes), e.inter, Overwrite(e.out, d.bytes), e.calls + 1)
  ELSE LET e == enc_func(Elem(this), cx, value, FALSE, Uninit, out)
           d == base64_decode(e.inter.s)
       IN  IF e.err # "none" THEN Raise(e.err, inter, out, e.calls + 1)
           ELSE IF e.ret = -1
             THEN IF ~d.ok THEN Raise("Malformed", inter, out, e.calls + 1)
                  ELSE Ok(-1, RStr(d.bytes), out, e.calls + 1)
           ELSE Ok(BASE64_DECODED_SIZE(e.ret), e.inter, out, e.calls + 1)

\* pg_coder_enc_func: the function pg_define_coder bound to the class.
enc_func(this, cx, value, hasOut, inter, out) ==
  CASE Head(this.chain) = "Boolean" -> pg_bin_enc_boolean(this, cx, value, hasOut, inter, out)
    [] Head(this.chain) = "Int2" -> pg_bin_enc_int2(this, cx, value, hasOut, inter, out)
    [] Head(this.chain) = "Int4" -> pg_bin_enc_int4(this, cx, value, hasOut, inter, out)
    [] Head(this.chain) = "Int8" -> pg_bin_enc_int8(this, cx, value, hasOut, inter, out)
    [] Head(this.chain) = "String" -> pg_coder_enc_to_s(this, cx, value, hasOut, inter, out)
    [] Head(this.chain) = "Timestamp" -> pg_bin_enc_timestamp(this, cx, value, hasOut, inter, out)
    [] Head(this.chain) = "FromBase64" -> pg_bin_enc_from_base64(this, cx, value, hasOut, inter, out)

\* ------------------------------------------------------------- the inputs
\* 2^b
Pow2(b) == [k \in 1..NLimbs |-> IF k = (b \div 8) + 1 THEN 2 ^ (b % 8) ELSE 0]

\* The Integer whose big-endian bytes are the given text.
Ascii(text) == RInt(FromBE(text))

\* base64 texts: "QUJD", "QUI=", "QQ==", "QUJDREVG", "QUJDRA==" are well
\* formed ("ABC", "AB", "A", "ABCDEF", "ABCD"); "Q*JD" holds an invalid
\* character, "QQ=A" and "QUJ" have an incorrect padding.
T_QUJD == <<81, 85, 74, 68>>

T_QUIp == <<81, 85, 73, 61>>

T_QQpp == <<81, 81, 61, 61>>

T_Bad == <<81, 42, 74, 68>>

T_BadPad == <<81, 81, 61, 65>>

T_Short == <<81, 85, 74>>

T_QUJDREVG == <<81, 85, 74, 68, 82, 69, 86, 71>>

T_QUJDRApp == <<81, 85, 74, 68, 82, 65, 61, 61>>

\* "UVVKRA==", the base64 text of the base64 text "QUJD".
T_Double == <<85, 86, 86, 75, 82, 65, 61, 61>>

\* Eight bytes of a timestamp encoded beforehand, and three bytes that are not.
T_Raw8 == <<0, 0, 0, 0, 0, 15, 66, 64>>

T_Raw3 == <<0, 1, 2>>

Strings ==
  {RStr(t) : t \in {<<>>, T_QUJD, T_QUIp, T_QQpp, T_Bad, T_BadPad, T_Short,
                    T_QUJDREVG, T_QUJDRApp, T_Double, T_Raw8, T_Raw3}}

\* The limits of the three widths, both sides of each.
Edge(b) == {Pow2(b), Sub(Pow2(b), ToLimbs(1)), Neg(Pow2(b)), Sub(Neg(Pow2(b)), ToLimbs(1))}

Integers ==
  {RInt(n) : n \in {ToLimbs(0), ToLimbs(1), ToLimbs(-1), ToLimbs(258)}
                   \cup Edge(15) \cup Edge(31) \cup Edge(63)}
  \cup {Ascii(t) : t \in {T_QUJD, T_QUIp, T_QQpp, T_Bad, T_QUJDREVG, T_QUJDRApp}}

\* 2000-01-01T00:00:00Z in seconds since 1970-01-01T00:00:00Z.
Y2K == 946684800

Offsets == {3600 * h : h \in (0 - MaxHours)..MaxHours}

\* Instants around 2000-01-01 in UTC, one of them also with a fixed offset
\* of its own, and instants far away: 1970-01-01, +-2^44 s (the microsecond
\* count leaves 64 bits), the ends of time_t, and one beyond time_t.
Times ==
  {RTime(ToLimbs(Y2K + d), ns, 0) :
     d \in (0 - MaxDelta)..MaxDelta, ns \in {0, 1999, 999999999}}
  \cup {RTime(ToLimbs(Y2K), 0, 3600 * MaxHours)}
  \cup {RTime(n, 0, 0) : n \in {ToLimbs(0), Pow2(44), Neg(Pow2(44)),
                                Sub(Pow2(63), ToLimbs(1)), Neg(Pow2(63)), Pow2(70)}}

Classes == {"Boolean", "Int2", "Int4", "Int8", "String", "Timestamp"}

Chains ==
  {<<k>> : k \in Classes} \cup {<<"FromBase64", k>> : k \in Classes}
  \cup {<<"FromBase64", "FromBase64", "String">>}

Leaf(chain) == chain[Len(chain)]

Coders ==
  {[chain |-> ch, flags |-> f] : ch \in Chains, f \in {{}, {"TIMESTAMP_DB_LOCAL"}}}

\* The values an encode operation is started with. The flag is read by
\* Timestamp alone, so the other coders are taken with no flag set.
Inputs(c) ==
  IF Leaf(c.chain) # "Timestamp" /\ c.flags # {} THEN {}
  ELSE CASE Leaf(c.chain) = "Boolean" -> {Qtrue, Qfalse, Qnil, RInt(ToLimbs(1))}
         [] Leaf(c.chain) \in {"Int2", "Int4", "Int8"} ->
              Integers \cup {Qnil, Qtrue, RStr(<<45, 49, 50>>)}
         [] Leaf(c.chain) = "String" -> Strings \cup {Qnil, Qtrue, Qfalse}
         [] Leaf(c.chain) = "Timestamp" ->
              Times \cup {RStr(t) : t \in {T_Raw8, T_Raw3, T_QUJD, T_Bad}} \cup {Qnil}

\* What a caller may pass as the value of the writing call instead of the
\* value of the sizing call.
AltValues == {RStr(T_QUJD), RTime(ToLimbs(Y2K + 7), 0, 0)}

Builds == {"LP64", "LLP64"}

UBOutcomes == {"wrap", "trap"}

\* ---------------------------------------------------------------- state
VARIABLES
  pc,            \* "idle", "sized", "written", "payload" or "failed"
  build,         \* the data model the extension was compiled for
  env,           \* the UTC offset of the process's local zone, in seconds
  this,          \* the coder of the encode operation
  value,         \* the value argument of the next call
  value0,        \* the value argument of the sizing call
  env0,          \* env at the sizing call
  intermediate,  \* the intermediate slot
  sizeRet,       \* what the sizing call returned
  cap,           \* the size of the region the caller made after sizing
  out,           \* the bytes written at the out pointer (see Ok)
  writeRet,      \* what the writing call returned
  err,           \* the exception that ended the operation, or "none"
  errCall,       \* the call that raised it: "sizing", "writing" or "none"
  elemCalls      \* element encoder invocations made by the last call

vars == <<pc, build, env, this, value, value0, env0, intermediate, sizeRet, cap,
          out, writeRet, err, errCall, elemCalls>>

NoCoder == [chain |-> <<>>, flags |-> {}]

Idle ==
  /\ pc = "idle"
  /\ this = NoCoder
  /\ value = Qnil
  /\ value0 = Qnil
  /\ env0 = env
  /\ intermediate = Qnil
  /\ sizeRet = 0
  /\ cap = 0
  /\ out = <<>>
  /\ writeRet = 0
  /\ err = "none"
  /\ errCall = "none"
  /\ elemCalls = 0

Init ==
  /\ build \in Builds
  /\ env \in Offsets
  /\ Idle

Cx(e, ubo) == [build |-> build, env |-> e, ubo |-> ubo]

\* The first call of the driver: out = NULL, a fresh intermediate slot. The
\* region the caller then makes has the reported size; after the sentinel
\* the intermediate is the payload and its length the size.
SizingCall(c, v) ==
  /\ pc = "idle"
  /\ LET r == enc_func(c, Cx(env, "wrap"), v, FALSE, Qnil, <<>>)
     IN  /\ pc' = IF r.err = "none" THEN "sized" ELSE "failed"
         /\ intermediate' = r.inter
         /\ sizeRet' = r.ret
         /\ cap' = IF r.err # "none" THEN 0
                   ELSE IF r.ret = -1 THEN Len(r.inter.s) ELSE r.ret
         /\ out' = r.out
         /\ err' = r.err
         /\ errCall' = IF r.err = "none" THEN "none" ELSE "sizing"
         /\ elemCalls' = r.calls
  /\ this' = c
  /\ value' = v
  /\ value0' = v
  /\ env0' = env
  /\ UNCHANGED <<build, env, writeRet>>

\* The process's zone changes between the two calls (TZ is set, a DST
\* transition passes).
ChangeEnv(o) ==
  /\ pc = "sized"
  /\ o # env
  /\ env' = o
  /\ UNCHANGED <<pc, build, this, value, value0, env0, intermediate, sizeRet, cap,
                 out, writeRet, err, errCall, elemCalls>>

\* The caller hands the writing call another value than the sizing call's.
\* (A Time is not handed to a string conversion: its text is not modelled.)
ChangeValue(v) ==
  /\ pc = "sized"
  /\ value = value0
  /\ v # value0
  /\ v.t = "time" => intermediate.t # "str" /\ Leaf(this.chain) # "String"
  /\ value' = v
  /\ UNCHANGED <<pc, build, env, this, value0, env0, intermediate, sizeRet, cap,
                 out, writeRet, err, errCall, elemCalls>>

\* The second call: out = the caller's region.
WritingCall(ubo) ==
  /\ pc = "sized"
  /\ LET r == enc_func(this, Cx(env, ubo), value, TRUE, intermediate, <<>>)
     IN  /\ pc' = IF r.err = "none" THEN "written" ELSE "failed"
         /\ intermediate' = r.inter
         /\ writeRet' = r.ret
         /\ out' = r.out
         /\ err' = r.err
         /\ errCall' = IF r.err = "none" THEN "none" ELSE "writing"
         /\ elemCalls' = r.calls
  /\ UNCHANGED <<build, env, this, value, value0, env0, sizeRet, cap>>

\* After the sentinel the driver takes the intermediate as the payload and
\* makes no second call.
TakePayload ==
  /\ pc = "sized"
  /\ sizeRet = -1
  /\ pc' = "payload"
  /\ UNCHANGED <<build, env, this, value, value0, env0, intermediate, sizeRet, cap,
                 out, writeRet, err, errCall, elemCalls>>

\* The operation is over; the slot and the region are discarded.
Finish ==
  /\ pc \in {"written", "payload", "failed"}
  /\ pc' = "idle"
  /\ this' = NoCoder
  /\ value' = Qnil
  /\ value0' = Qnil
  /\ env0' = env
  /\ intermediate' = Qnil
  /\ sizeRet' = 0
  /\ cap' = 0
  /\ out' = <<>>
  /\ writeRet' = 0
  /\ err' = "none"
  /\ errCall' = "none"
  /\ elemCalls' = 0
  /\ UNCHANGED <<build, env>>

Next ==
  \/ \E c \in Coders : \E v \in Inputs(c) : SizingCall(c, v)
  \/ \E o \in Offsets : ChangeEnv(o)
  \/ \E v \in AltValues : ChangeValue(v)
  \/ \E ubo \in UBOutcomes : WritingCall(ubo)
  \/ TakePayload
  \/ Finish

Spec == Init /\ [][Next]_vars

\* ------------------------------------------------------------ the claims
Top == IF this.chain = <<>> THEN "none" ELSE Head(this.chain)

Local == "TIMESTAMP_DB_LOCAL" \in this.flags

\* The writing call has been made.
Wrote == pc = "written" \/ (pc = "failed" /\ errCall = "writing")

\* What the element encoder answered in the sizing call of the operation.
ElemSizing == enc_func(Elem(this), Cx(env0, "wrap"), value0, FALSE, Uninit, <<>>)

\* The padding characters at the end of the text the region still holds
\* behind the decoded bytes.
TrailingPads(o) ==
  IF Len(o) >= 1 /\ IsPad(o[Len(o)])
  THEN IF Len(o) >= 2 /\ IsPad(o[Len(o) - 1]) THEN 2 ELSE 1
  ELSE 0

\* A valid input: the writing call is given the value of the sizing call,
\* and an Integer lies in the signed range of the integer encoder's width.
C1_Valid ==
  /\ value = value0
  /\ (value0.t = "int" /\ Leaf(this.chain) = "Int2") => FitsSigned(value0.n, 2)
  /\ (value0.t = "int" /\ Leaf(this.chain) = "Int4") => FitsSigned(value0.n, 4)
  /\ (value0.t = "int" /\ Leaf(this.chain) = "Int8") => FitsSigned(value0.n, 8)

C2_WritesInsideRegion ==
  Wrote => Len(out) <= cap

\* C3: an integer encoder of w bits writes the big-endian two's complement
\* bytes of a value inside the signed range of w bits, and ends in a range
\* failure, with nothing written, for a value outside of it.
C3_IntRangeChecked ==
  \A w \in {2, 4, 8} :
    (/\ Wrote
     /\ this.chain = <<IF w = 2 THEN "Int2" ELSE IF w = 4 THEN "Int4" ELSE "Int8">>
     /\ value0.t = "int") =>
       IF FitsSigned(value0.n, w)
       THEN pc = "written" /\ Len(out) = w /\ FromBE(out) = value0.n
       ELSE pc = "failed" /\ err = "RangeError" /\ out = <<>>

\* The payload of a finished operation: the intermediate after the
\* sentinel, the bytes written otherwise.
Payload ==
  IF pc = "payload" \/ writeRet = -1 THEN intermediate.s ELSE SubSeq(out, 1, writeRet)

C5_Micros(s, n, o, local) ==
  LET p == MulSmall(Sub(s, ToLimbs(10957 * 86400)), 1000000)
      q == Add(p, ToLimbs(n \div 1000))
      r == MulSmall(ToLimbs(o), 1000000)
  IN  [v |-> IF local THEN Add(q, r) ELSE q,
       fits |-> /\ FitsSigned(p, 8) /\ FitsSigned(q, 8)
                /\ local => FitsSigned(Add(q, r), 8)]

C5_Case ==
  /\ this.chain = <<"Timestamp">>
  /\ pc = "written"
  /\ value0.t = "time"

\* C5 as stated: for every instant the bytes written are the 8 byte big
\* endian signed integer of the formula.
C5_EveryInstant ==
  C5_Case => FromBE(out) = C5_Micros(value0.n, value0.nsec, env0, Local).v

\* C5: for every instant for which each step of the computation stays in
\* the signed range of 64 bits, the bytes written are the 8 byte big endian
\* signed integer (s - 10957*86400)*1000000 + floor(n/1000), plus
\* o*1000000 in local mode, o being the offset of the process's zone at the
\* sizing call; 2000-01-01T00:00:00Z is 8 zero bytes in UTC mode and
\* 3600000000 in local mode one hour east.
C5_TimestampValue ==
  C5_Case =>
    /\ C5_Micros(value0.n, value0.nsec, env0, Local).fits =>
         /\ Len(out) = 8
         /\ FromBE(out) = C5_Micros(value0.n, value0.nsec, env0, Local).v
    /\ (value0.n = ToLimbs(946684800) /\ value0.nsec = 0 /\ ~Local) =>
         out = <<0, 0, 0, 0, 0, 0, 0, 0>>
    /\ (value0.n = ToLimbs(946684800) /\ value0.nsec = 0 /\ Local /\ env0 = 3600) =>
         out = <<0, 0, 0, 0, 214, 147, 164, 0>>
    /\ (value0.n = ToLimbs(946684799) /\ value0.nsec = 999999999 /\ ~Local) =>
         out = <<255, 255, 255, 255, 255, 255, 255, 255>>

C5_Witness ==
  /\ C5_Case
  /\ Local
  /\ env0 = 3600
  /\ value0.nsec = 1999
  /\ out = <<0, 0, 0, 0, 214, 147, 164, 1>>

\* The element answered the sentinel in the sizing call of FromBase64.
C6_Case ==
  /\ Top = "FromBase64"
  /\ pc = "sized"
  /\ ElemSizing.err = "none"
  /\ ElemSizing.ret = -1

\* C6 as stated: the sizing call then returns the decoded length, not the
\* sentinel.
C6_ReturnsDecodedLength ==
  C6_Case => (sizeRet >= 0 /\ sizeRet = Len(intermediate.s))

\* C6: the sizing call then decodes the text, stores the decoded bytes as
\* the intermediate and returns the sentinel itself; the decoded length is
\* the length of the intermediate.
C6_DecodesAndReturnsSentinel ==
  /\ C6_Case =>
       /\ sizeRet = -1
       /\ intermediate = RStr(base64_decode(ElemSizing.inter.s).bytes)
       /\ cap = Len(intermediate.s)
  /\ (C6_Case /\ this.chain = <<"FromBase64", "String">> /\ value0 = RStr(T_QUJDRApp)) =>
       intermediate.s = <<65, 66, 67, 68>>

C6_Witness ==
  /\ C6_Case
  /\ intermediate.s = <<65, 66, 67, 68>>

\* A writing call of FromBase64 made after its sizing call returned the
\* sentinel and left the decoded bytes in the intermediate.
C7_Case ==
  /\ Top = "FromBase64"
  /\ Wrote
  /\ sizeRet = -1

C8_MalformedWritesNothing ==
  (pc = "failed" /\ err = "Malformed") => out = <<>>

\* What the element's writing call left in the region.
ElemWriting ==
  enc_func(Elem(this), Cx(env, "wrap"), value, TRUE, intermediate, <<>>)

\* C8: a malformed base64 text ends the operation in a failure. On the
\* length-unknown path it is raised in the sizing call and nothing is
\* written; on the known-length path it is raised in the writing call
\* after the element has written its text into the region: the region
\* holds that text and no decoded byte.
C8_MalformedLeavesText ==
  /\ (pc = "failed" /\ err = "Malformed" /\ errCall = "sizing") => out = <<>>
  /\ (pc = "failed" /\ err = "Malformed" /\ errCall = "writing") =>
       /\ ElemWriting.err = "none"
       /\ out = ElemWriting.out
       /\ ~base64_decode(out).ok
  /\ (pc = "failed" /\ err = "Malformed" /\ errCall = "writing"
      /\ this.chain \in {<<"FromBase64", "Int2">>, <<"FromBase64", "Int4">>, <<"FromBase64", "Int8">>}) =>
       out = write_nbo(Len(out), intermediate.n)
  /\ (Top = "FromBase64" /\ Wrote /\ sizeRet # -1 /\ value0.t = "int"
      /\ ~base64_decode(write_nbo(Len(out), value0.n)).ok) =>
       (pc = "failed" /\ err \in {"Malformed", "RangeError"})
  /\ (Top = "FromBase64" /\ pc # "idle" /\ value0 \in {RStr(T_Bad), RStr(T_BadPad), RStr(T_Short)}) =>
       (pc = "failed" /\ err = "Malformed" /\ errCall = "sizing")

C8_Witness ==
  /\ pc = "failed"
  /\ err = "Malformed"
  /\ errCall = "writing"
  /\ out = T_Bad

\* C9: the Boolean encoder returns 1 in both calls and writes 1 for true
\* and 0 for false; any other value raises a type mismatch in the call that
\* is given it, with nothing written and the intermediate left as it was.
C9_Boolean ==
  (this.chain = <<"Boolean">> /\ pc # "idle") =>
     /\ intermediate = Qnil
     /\ value0.t \in {"true", "false"} <=> errCall # "sizing"
     /\ pc \in {"sized", "written"} => sizeRet = 1
     /\ pc = "sized" => out = <<>>
     /\ (Wrote /\ value.t \in {"true", "false"}) =>
          /\ pc = "written"
          /\ writeRet = 1
          /\ out = <<IF value.t = "true" THEN 1 ELSE 0>>
     /\ (Wrote /\ value.t \notin {"true", "false"}) =>
          (pc = "failed" /\ errCall = "writing")
     /\ pc = "failed" => (err = "TypeError" /\ out = <<>>)

C9_Witness ==
  /\ this.chain = <<"Boolean">>
  /\ pc = "failed"
  /\ errCall = "writing"
  /\ err = "TypeError"

\* A writing call of the Timestamp encoder in local mode for an instant.
C10_Case ==
  /\ this.chain = <<"Timestamp">>
  /\ Local
  /\ value0.t = "time"
  /\ pc = "written"

\* What the two calls write when the second follows the first at once.
C10_AtOnce ==
  LET s == enc_func(this, Cx(env0, "wrap"), value0, FALSE, Qnil, <<>>)
  IN  enc_func(this, Cx(env0, "wrap"), value0, TRUE, s.inter, <<>>)

\* C10: in local mode the bytes written are those the writing call would
\* have written right after the sizing call, whatever the zone of the
\* process and the value argument have become in between: the offset is the
\* one of the sizing call, kept in the intermediate.
C10_OffsetFixedAtSizing ==
  C10_Case =>
    /\ out = C10_AtOnce.out
    /\ writeRet = C10_AtOnce.ret
    /\ intermediate.off = env0
    /\ intermediate.n = value0.n
    /\ intermediate.nsec = value0.nsec

C10_Witness ==
  /\ C10_Case
  /\ env # env0
  /\ value # value0
  /\ env0 = 3600
  /\ out = <<0, 0, 0, 0, 214, 147, 164, 0>>

====
